---- MODULE Spec2Model ----
(***************************************************************************)
(* State-machine model of the password generator of src/main.py:           *)
(* build_charset (lines 25-44) and generate_password (lines 46-80), with   *)
(* the random source (secrets.choice, secrets.randbelow) as a              *)
(* nondeterministic input.  A Python string is modelled as the sequence of *)
(* its one-character strings.                                              *)
(***************************************************************************)
EXTENDS Integers, Sequences, FiniteSets, TLC

\* ------------------------------------------------------------------ bounds
\* Largest requested length explored.
MaxLen == 4
\* Lengths 0, -1, ..., -MaxNeg are explored as invalid lengths.
MaxNeg == 1
\* Number of outcomes of one secrets.choice draw that are explored, spread
\* evenly over the indices of the sequence drawn from (both ends included).
MaxChoice == 2

\* --------------------------------------------------------------- constants
\* string.ascii_lowercase (main.py:28)
ascii_lowercase ==
  << "a", "b", "c", "d", "e", "f", "g", "h", "i", "j", "k", "l", "m",
     "n", "o", "p", "q", "r", "s", "t", "u", "v", "w", "x", "y", "z" >>

\* string.ascii_uppercase (main.py:30)
ascii_uppercase ==
  << "A", "B", "C", "D", "E", "F", "G", "H", "I", "J", "K", "L", "M",
     "N", "O", "P", "Q", "R", "S", "T", "U", "V", "W", "X", "Y", "Z" >>

\* string.digits (main.py:32)
digits ==
  << "0", "1", "2", "3", "4", "5", "6", "7", "8", "9" >>

\* the symbol literal "!@#$%^&*()-_=+[]{}<>?/" (main.py:35)
symbols ==
  << "!", "@", "#", "$", "%", "^", "&", "*", "(", ")", "-", "_", "=", "+",
     "[", "]", "{", "}", "<", ">", "?", "/" >>

\* a variant of AMBIGUOUS that also holds every digit
AMBIGUOUS_with_digits ==
  { "I", "l", "1", "O", "0", "`", "'", "\"", ".", ",", ";", ":",
    "2", "3", "4", "5", "6", "7", "8", "9" }

\* AMBIGUOUS = set("Il1O0`'\".,;:") (main.py:23)
AMBIGUOUS ==
  { "I", "l", "1", "O", "0", "`", "'", "\"", ".", ",", ";", ":" }

\* The messages of the three ValueErrors (main.py:55, 37, 43).
MsgLength == "Length must be a positive integer."
MsgNoCategory == "At least one character type must be selected."
MsgEmptied == "Character sets became empty after excluding ambiguous characters."
\* What indexing a sequence out of range raises (secrets.choice on seq[i]).
IndexError == "IndexError"
\* No exception raised.
None == "None"

\* ----------------------------------------------------------------- helpers
Range(s) == { s[k] : k \in 1..Len(s) }

\* ''.join(parts) (main.py:59)
RECURSIVE Join(_)
Join(ps) == IF ps = << >> THEN << >> ELSE Head(ps) \o Join(Tail(ps))

\* ''.join(ch for ch in s if ch not in AMBIGUOUS), kept unfiltered
ExcludeNothing(s, amb) == s

\* ''.join(ch for ch in s if ch not in AMBIGUOUS) (main.py:39)
ExcludeAmbiguous(s, amb) == SelectSeq(s, LAMBDA ch : ch \notin amb)

\* the appends of build_charset with the symbols appended whatever the flag
SelectedPartsAnySymbols(l, u, d, s) ==
  (IF l THEN << ascii_lowercase >> ELSE << >>)
    \o (IF u THEN << ascii_uppercase >> ELSE << >>)
    \o (IF d THEN << digits >> ELSE << >>)
    \o << symbols >>

\* parts after the four conditional appends (main.py:26-35)
SelectedParts(l, u, d, s) ==
  (IF l THEN << ascii_lowercase >> ELSE << >>)
    \o (IF u THEN << ascii_uppercase >> ELSE << >>)
    \o (IF d THEN << digits >> ELSE << >>)
    \o (IF s THEN << symbols >> ELSE << >>)

\* parts = [p for p in parts if p] (main.py:41)
DropEmpty(ps) == SelectSeq(ps, LAMBDA p : p # << >>)

\* build_charset whose first emptiness test never raises
build_charset_no_first_check(l, u, d, s, x, amb) ==
  LET selected == SelectedParts(l, u, d, s)
      excluded == IF x
                    THEN [k \in 1..Len(selected) |-> ExcludeAmbiguous(selected[k], amb)]
                    ELSE selected
      kept == DropEmpty(excluded)
  IN  IF kept = << >>
        THEN [raised |-> MsgEmptied, parts |-> << >>]
        ELSE [raised |-> None, parts |-> kept]

\* build_charset whose second emptiness test raises the first test's error
build_charset_same_error(l, u, d, s, x, amb) ==
  LET selected == SelectedParts(l, u, d, s)
      excluded == IF x
                    THEN [k \in 1..Len(selected) |-> ExcludeAmbiguous(selected[k], amb)]
                    ELSE selected
      kept == DropEmpty(excluded)
  IN  IF selected = << >> \/ kept = << >>
        THEN [raised |-> MsgNoCategory, parts |-> << >>]
        ELSE [raised |-> None, parts |-> kept]

\* build_charset (main.py:25-44): the surviving pools, or the error raised
build_charset(l, u, d, s, x, amb) ==
  LET selected == SelectedParts(l, u, d, s)
      excluded == IF x
                    THEN [k \in 1..Len(selected) |-> ExcludeAmbiguous(selected[k], amb)]
                    ELSE selected
      kept == DropEmpty(excluded)
  IN  IF selected = << >>
        THEN [raised |-> MsgNoCategory, parts |-> << >>]
        ELSE IF kept = << >>
          THEN [raised |-> MsgEmptied, parts |-> << >>]
          ELSE [raised |-> None, parts |-> kept]

\* length < 0 in place of length <= 0
LengthNegative(len) == len < 0

\* if length <= 0 (main.py:54)
LengthInvalid(len) == len <= 0

\* length <= len(parts) in place of length < len(parts)
InsufficientOrEqual(len, ps) == len <= Len(ps)

\* if length < len(parts) (main.py:61)
InsufficientLength(len, ps) == len < Len(ps)

\* remaining = length, the coverage characters not subtracted
RemainingWhole(len, chars) == len

\* remaining = length - len(password_chars) (main.py:71)
Remaining(len, chars) == len - Len(chars)

\* secrets.randbelow(n): any integer of [0, n)
RandBelow(n) == 0..(n - 1)

\* the explored indices taken over [0, n] instead of [0, n)
ChoiceDrawsOffByOne(n) ==
  { (r * n) \div (MaxChoice - 1) : r \in 0..(MaxChoice - 1) }

\* The indices secrets.choice may pick in a sequence of n items that are
\* explored: MaxChoice of the values of randbelow(n), evenly spread.
ChoiceDraws(n) ==
  { (r * (n - 1)) \div (MaxChoice - 1) : r \in 0..(MaxChoice - 1) } \cap RandBelow(n)

\* seq[k] for a 0-based k: the item, or IndexError when k is out of range
Item(seq, k) == IF k \in 0..(Len(seq) - 1) THEN seq[k + 1] ELSE IndexError

\* secrets.choice(seq): the outcomes of one draw (IndexError on an empty seq)
Choice(seq) ==
  IF seq = << >> THEN { IndexError }
  ELSE { Item(seq, k) : k \in ChoiceDraws(Len(seq)) }

\* j = secrets.randbelow(i), the position i itself never drawn
ShuffleDrawsBelow(hi) == RandBelow(hi)

\* j = secrets.randbelow(i+1) (main.py:77)
ShuffleDraws(hi) == RandBelow(hi + 1)

\* a[i], a[j] = a[j], a[i] for 0-based i, j (main.py:78)
Swap(a, p, q) ==
  [a EXCEPT ![p + 1] = a[q + 1], ![q + 1] = a[p + 1]]

\* the arrangement before any exchange: position p holds item p
Identity(n) == [p \in 1..n |-> p]

\* ------------------------------------------------------------------- state
VARIABLES
  length, use_lower, use_upper, use_digits, use_symbols, exclude_ambiguous,
  ambiguous,        \* the module-level set AMBIGUOUS read at main.py:39
  pc,               \* position of the call in generate_password
  parts, pool,      \* locals of generate_password (main.py:57, 59)
  password_chars,   \* the characters drawn so far (main.py:65, 68, 72)
  remaining,        \* filler draws still to make (main.py:71-72)
  i,                \* the shuffle's loop index (main.py:76)
  raised,           \* the exception that ended the call, or None
  result,           \* the returned password
  working,          \* password_chars as it entered the shuffle
  perm,             \* perm[p]: the position in working of the item now at p
  draws,            \* the indices j drawn by the shuffle, in order
  ndraws,           \* number of values taken from the random source
  prev              \* outcome class of the previous call with these inputs

inputs ==
  << length, use_lower, use_upper, use_digits, use_symbols, exclude_ambiguous,
     ambiguous >>

locals ==
  << parts, pool, password_chars, remaining, i, working, perm, draws >>

vars == << inputs, pc, locals, raised, result, ndraws, prev >>

\* The requested lengths explored.
Lengths == (0 - MaxNeg)..MaxLen

\* The locals before the call has assigned them.
FreshLocals ==
  /\ parts = << >>
  /\ pool = << >>
  /\ password_chars = << >>
  /\ remaining = 0
  /\ i = 0
  /\ working = << >>
  /\ perm = << >>
  /\ draws = << >>

\* A caller (cli_main, do_generate) about to call generate_password.
InitCall ==
  /\ length \in Lengths
  /\ use_lower \in BOOLEAN
  /\ use_upper \in BOOLEAN
  /\ use_digits \in BOOLEAN
  /\ use_symbols \in BOOLEAN
  /\ exclude_ambiguous \in BOOLEAN
  /\ pc = "call"
  /\ FreshLocals
  /\ raised = None
  /\ result = << >>
  /\ ndraws = 0
  /\ prev = None

Init ==
  /\ ambiguous = AMBIGUOUS
  /\ InitCall

\* The set AMBIGUOUS after an edit of main.py:23, whose comment invites one
\* ("add/remove as you prefer"): every digit and every symbol added, so
\* that exclusion empties those two categories.
AMBIGUOUS_edited == AMBIGUOUS \cup Range(digits) \cup Range(symbols)

InitEdited ==
  /\ ambiguous = AMBIGUOUS_edited
  /\ InitCall

\* The outcome class of a finished call: the password class or the error.
Kind == IF pc = "raised" THEN raised ELSE "password"

\* if length <= 0: raise ValueError (main.py:54-55)
Validate ==
  /\ pc = "call"
  /\ IF LengthInvalid(length)
       THEN pc' = "raised" /\ raised' = MsgLength
       ELSE pc' = "build" /\ raised' = raised
  /\ UNCHANGED << inputs, locals, result, ndraws, prev >>

\* parts = build_charset(...); pool = ''.join(parts); the branch on
\* length < len(parts) (main.py:57-61)
BuildCharset ==
  /\ pc = "build"
  /\ LET built == build_charset(use_lower, use_upper, use_digits, use_symbols,
                                exclude_ambiguous, ambiguous)
     IN  IF built.raised # None
           THEN /\ pc' = "raised"
                /\ raised' = built.raised
                /\ UNCHANGED << parts, pool >>
           ELSE /\ parts' = built.parts
                /\ pool' = Join(built.parts)
                /\ pc' = IF InsufficientLength(length, built.parts)
                           THEN "short" ELSE "cover"
                /\ raised' = raised
  /\ UNCHANGED << inputs, password_chars, remaining, i, working, perm, draws,
                  result, ndraws, prev >>

\* one secrets.choice(pool) of the generator of main.py:65
DrawShort ==
  /\ pc = "short"
  /\ Len(password_chars) < length
  /\ \E c \in Choice(pool) :
       IF c = IndexError
         THEN pc' = "raised" /\ raised' = IndexError
              /\ password_chars' = password_chars
         ELSE pc' = pc /\ raised' = raised
              /\ password_chars' = Append(password_chars, c)
  /\ ndraws' = ndraws + 1
  /\ UNCHANGED << inputs, parts, pool, remaining, i, working, perm, draws,
                  result, prev >>

\* return ''.join(...) of the insufficient-length branch (main.py:65)
ReturnShort ==
  /\ pc = "short"
  /\ Len(password_chars) >= length
  /\ result' = password_chars
  /\ pc' = "returned"
  /\ UNCHANGED << inputs, locals, raised, ndraws, prev >>

\* one secrets.choice(part) of the comprehension of main.py:68; after the
\* last part, remaining = length - len(password_chars) (main.py:71)
DrawCoverage ==
  /\ pc = "cover"
  /\ Len(password_chars) < Len(parts)
  /\ \E c \in Choice(parts[Len(password_chars) + 1]) :
       IF c = IndexError
         THEN /\ pc' = "raised" /\ raised' = IndexError
              /\ UNCHANGED << password_chars, remaining >>
         ELSE /\ raised' = raised
              /\ password_chars' = Append(password_chars, c)
              /\ IF Len(password_chars') = Len(parts)
                   THEN /\ pc' = "fill"
                        /\ remaining' = Remaining(length, password_chars')
                   ELSE /\ pc' = pc
                        /\ remaining' = remaining
  /\ ndraws' = ndraws + 1
  /\ UNCHANGED << inputs, parts, pool, i, working, perm, draws, result, prev >>

\* one secrets.choice(pool) of the comprehension of main.py:72
DrawFill ==
  /\ pc = "fill"
  /\ remaining > 0
  /\ \E c \in Choice(pool) :
       IF c = IndexError
         THEN /\ pc' = "raised" /\ raised' = IndexError
              /\ UNCHANGED << password_chars, remaining >>
         ELSE /\ pc' = pc /\ raised' = raised
              /\ password_chars' = Append(password_chars, c)
              /\ remaining' = remaining - 1
  /\ ndraws' = ndraws + 1
  /\ UNCHANGED << inputs, parts, pool, i, working, perm, draws, result, prev >>

\* entry of the loop for i in range(len(password_chars)-1, 0, -1) (main.py:76)
BeginShuffle ==
  /\ pc = "fill"
  /\ remaining <= 0
  /\ pc' = "shuffle"
  /\ i' = Len(password_chars) - 1
  /\ working' = password_chars
  /\ perm' = Identity(Len(password_chars))
  /\ draws' = << >>
  /\ UNCHANGED << inputs, parts, pool, password_chars, remaining, raised,
                  result, ndraws, prev >>

\* one iteration: j = secrets.randbelow(i+1); exchange i and j (main.py:77-78)
ShuffleStep ==
  /\ pc = "shuffle"
  /\ i >= 1
  /\ \E j \in ShuffleDraws(i) :
       /\ password_chars' = Swap(password_chars, i, j)
       /\ perm' = Swap(perm, i, j)
       /\ draws' = Append(draws, j)
  /\ i' = i - 1
  /\ ndraws' = ndraws + 1
  /\ UNCHANGED << inputs, pc, parts, pool, remaining, working, raised, result,
                  prev >>

\* return ''.join(password_chars) (main.py:80)
Return ==
  /\ pc = "shuffle"
  /\ i < 1
  /\ result' = password_chars
  /\ pc' = "returned"
  /\ UNCHANGED << inputs, locals, raised, ndraws, prev >>

\* The caller calls generate_password again with the same arguments: the
\* loop over args.count (main.py:109-118), the Generate button (main.py:165-177).
CallAgain ==
  /\ pc \in { "returned", "raised" }
  /\ prev' = Kind
  /\ pc' = "call"
  /\ parts' = << >>
  /\ pool' = << >>
  /\ password_chars' = << >>
  /\ remaining' = 0
  /\ i' = 0
  /\ working' = << >>
  /\ perm' = << >>
  /\ draws' = << >>
  /\ raised' = None
  /\ result' = << >>
  /\ ndraws' = 0
  /\ UNCHANGED inputs

Next ==
  \/ Validate
  \/ BuildCharset
  \/ DrawShort
  \/ ReturnShort
  \/ DrawCoverage
  \/ DrawFill
  \/ BeginShuffle
  \/ ShuffleStep
  \/ Return
  \/ CallAgain

Spec == Init /\ [][Next]_vars

\* The same program with the set AMBIGUOUS edited.
SpecEdited == InitEdited /\ [][Next]_vars

\* ------------------------------------------------------ terms of the claims
Done == pc \in { "returned", "raised" }

\* The reference alphabets of the categories whose flag is true.
SelectedAlphabets ==
  (IF use_lower THEN { ascii_lowercase } ELSE { })
    \cup (IF use_upper THEN { ascii_uppercase } ELSE { })
    \cup (IF use_digits THEN { digits } ELSE { })
    \cup (IF use_symbols THEN { symbols } ELSE { })

NoFlag == ~use_lower /\ ~use_upper /\ ~use_digits /\ ~use_symbols

\* The characters of an alphabet that exclusion leaves usable.
Usable(alphabet) ==
  { c \in Range(alphabet) : ~(exclude_ambiguous /\ c \in ambiguous) }

\* c is a character of the alphabet that exclusion leaves usable.
IsUsable(c, alphabet) ==
  /\ \E k \in 1..Len(alphabet) : alphabet[k] = c
  /\ ~(exclude_ambiguous /\ c \in ambiguous)

\* Exclusion leaves the alphabet no character.
Emptied(alphabet) ==
  exclude_ambiguous /\ \A k \in 1..Len(alphabet) : alphabet[k] \in ambiguous

\* The call took the coverage branch (main.py:67-80).
CoverageBranch == pc \in { "cover", "fill", "shuffle" } \/ (pc = "returned" /\ working # << >>)

\* The three failures and the success class.
Classes == { "password", MsgNoCategory, MsgEmptied, MsgLength }

\* ------------------------------------------------------------------ claims
\* C1 (coverage): a password returned for a length >= the number of pools
\* holds at least one character of every returned pool, that is of every
\* selected category's alphabet after exclusion, whatever was drawn.
Coverage ==
  (pc = "returned" /\ length >= Len(parts)) =>
    /\ \A k \in 1..Len(parts) :
         \E p \in 1..Len(result) : \E q \in 1..Len(parts[k]) : result[p] = parts[k][q]
    /\ \A a \in SelectedAlphabets :
         ~Emptied(a) => \E p \in 1..Len(result) : IsUsable(result[p], a)

\* C1 witness: four pools and length four (the boundary), and the shuffle
\* has moved the first pool's character away from the front.
CoverageWitness ==
  /\ pc = "returned"
  /\ Len(parts) = 4
  /\ length = 4
  /\ result[1] \notin Range(parts[1])
  /\ \A k \in 1..4 : \E p \in 1..4 : result[p] \in Range(parts[k])

\* C2 (length exactness): every returned password has exactly the requested
\* number of characters, in the insufficient-length and the coverage branch.
LengthExact ==
  pc = "returned" => Len(result) = length

\* C2 witness: a coverage-branch return with filler, and length four.
LengthExactWitness ==
  /\ pc = "returned"
  /\ CoverageBranch
  /\ Len(parts) = 2
  /\ length = 4
  /\ Len(result) = 4

\* C3 (alphabet containment): every character of a returned password is a
\* usable character of a category whose flag is true.
Containment ==
  pc = "returned" =>
    \A p \in 1..Len(result) :
      \E a \in SelectedAlphabets : IsUsable(result[p], a)

\* C3 witness: an insufficient-length return (coverage relaxed) with the
\* symbols not selected.
ContainmentWitness ==
  /\ pc = "returned"
  /\ ~CoverageBranch
  /\ ~use_symbols
  /\ length = 2
  /\ Len(result) = 2
  /\ result[1] \in Range(ascii_lowercase)

\* C4 (ambiguous exclusion): with exclude_ambiguous true no character of a
\* returned password is in AMBIGUOUS.
NoAmbiguous ==
  (pc = "returned" /\ exclude_ambiguous) =>
    \A p \in 1..Len(result) : result[p] \notin AMBIGUOUS

\* C4 witness: digits only with exclusion; the first usable digit, "2",
\* is returned where "0" would be without exclusion.
NoAmbiguousWitness ==
  /\ pc = "returned"
  /\ exclude_ambiguous
  /\ use_digits /\ ~use_lower /\ ~use_upper /\ ~use_symbols
  /\ length = 3
  /\ \E p \in 1..Len(result) : result[p] = "2"

\* C5 as claimed (no category selected): with the four flags false the call
\* signals NoCategorySelected, for every length.
NoCategoryAnyLength ==
  (Done /\ NoFlag) => (pc = "raised" /\ raised = MsgNoCategory)

\* C5 amended: with the four flags false the call returns no password; it
\* signals NoCategorySelected when length >= 1 and InvalidLength otherwise.
NoCategoryPositiveLength ==
  (Done /\ NoFlag) =>
    /\ pc = "raised"
    /\ result = << >>
    /\ raised = IF length >= 1 THEN MsgNoCategory ELSE MsgLength

\* C5 witness: the failure for a positive length with exclusion on.
NoCategoryWitness ==
  /\ pc = "raised"
  /\ NoFlag
  /\ length = 3
  /\ exclude_ambiguous
  /\ raised = MsgNoCategory

\* C6 (invalid length): a call with length <= 0 ends in InvalidLength with
\* nothing built, drawn or returned; a call with length >= 1 never does.
InvalidLength ==
  Done =>
    IF length <= 0
      THEN /\ pc = "raised"
           /\ raised = MsgLength
           /\ ndraws = 0
           /\ parts = << >>
           /\ password_chars = << >>
           /\ result = << >>
      ELSE raised # MsgLength

\* C6 witness: length 0 with every category selected.
InvalidLengthWitness ==
  /\ pc = "raised"
  /\ length = 0
  /\ use_lower /\ use_upper /\ use_digits /\ use_symbols
  /\ raised = MsgLength

\* build_charset has just returned, or the call has ended.
BuiltOrDone ==
  \/ pc \in { "short", "cover" } /\ password_chars = << >>
  \/ Done

\* C7 (all pools emptied), under SpecEdited: once build_charset has run
\* with a flag true, the call has failed with the emptied-pools error (not
\* the no-category error) exactly when exclusion left no selected category a
\* usable character; otherwise the call goes on without that error and
\* parts holds the surviving pools only, the emptied ones dropped.
AllPoolsEmptied ==
  (pc \notin { "call", "build" } /\ length >= 1 /\ ~NoFlag) =>
    IF \A a \in SelectedAlphabets : Emptied(a)
      THEN /\ pc = "raised"
           /\ raised = MsgEmptied
           /\ raised # MsgNoCategory
           /\ result = << >>
      ELSE /\ raised = None
           /\ Len(parts) = Cardinality({ a \in SelectedAlphabets : ~Emptied(a) })
           /\ BuiltOrDone =>
                \A k \in 1..Len(parts) :
                  /\ parts[k] # << >>
                  /\ \E a \in SelectedAlphabets : Range(parts[k]) = Usable(a)

\* C7 witness: digits and symbols selected and both emptied by exclusion.
AllPoolsEmptiedWitness ==
  /\ pc = "raised"
  /\ raised = MsgEmptied
  /\ use_digits /\ use_symbols /\ ~use_lower /\ ~use_upper
  /\ exclude_ambiguous
  /\ length = 2

\* C8 (determinism of validation): every finished call is in one of the
\* four outcome classes, and in the class in which the previous call with
\* the same inputs finished.
SameClassification ==
  Done =>
    /\ Kind \in Classes
    /\ prev # None => Kind = prev

\* C8 witness: a second call that returned a password, as the first did.
SameClassificationWitness ==
  /\ pc = "returned"
  /\ prev = "password"
  /\ length = 3
  /\ ndraws > 0

\* The draw sequences the shuffle of n items can make: one j per i, for
\* i = n-1 down to 1, each j among the values the code draws for that i.
DrawSeqs(n) ==
  { d \in [1..(n - 1) -> 0..(n - 1)] :
      \A k \in 1..(n - 1) : d[k] \in ShuffleDraws(n - k) }

\* The arrangement the exchanges of the draws d make of a, taken in order.
RECURSIVE ShuffleBy(_, _, _)
ShuffleBy(a, d, k) ==
  IF k > Len(d) THEN a
  ELSE ShuffleBy(Swap(a, Len(a) - k, d[k]), d, k + 1)

\* The arrangement of 1..n the draw sequence d leads to.
Shuffled(n, d) == ShuffleBy(Identity(n), d, 1)

\* The permutations of 1..n.
Perms(n) ==
  { f \in [1..n -> 1..n] : \A p, q \in 1..n : f[p] = f[q] => p = q }

RECURSIVE Factorial(_)
Factorial(n) == IF n <= 1 THEN 1 ELSE n * Factorial(n - 1)

\* For every n up to MaxLen: the draws are the j of [0, i] for i = n-1
\* down to 1, distinct draw sequences lead to distinct arrangements, and
\* the arrangements reached are the n! permutations of the positions.
DrawsToPermsBijective ==
  \A n \in 1..MaxLen :
     /\ DrawSeqs(n) = { d \in [1..(n - 1) -> 0..(n - 1)] :
                          \A k \in 1..(n - 1) : d[k] \in 0..(n - k) }
     /\ \A d1, d2 \in DrawSeqs(n) :
          Shuffled(n, d1) = Shuffled(n, d2) => d1 = d2
     /\ { Shuffled(n, d) : d \in DrawSeqs(n) } = Perms(n)
     /\ Cardinality(Perms(n)) = Factorial(n)

\* C9 (unbiased shuffle): in the coverage branch the loop index runs from
\* n-1 down to 1, each drawn j lies in [0, i], password_chars is working
\* rearranged by perm, and perm is the arrangement the draws made so far
\* lead to; the returned password is such a rearrangement by a permutation
\* of the n positions, and the map from draw sequences to arrangements is
\* a bijection onto the n! permutations.
UnbiasedShuffle ==
  (pc \in { "shuffle", "returned" } /\ working # << >>) =>
    LET n == Len(working) IN
      /\ n = length
      /\ i = n - 1 - Len(draws)
      /\ \A k \in 1..Len(draws) : draws[k] \in 0..(n - k)
      /\ perm = ShuffleBy(Identity(n), draws, 1)
      /\ password_chars = [p \in 1..n |-> working[perm[p]]]
      /\ pc = "returned" =>
           /\ i = 0
           /\ result = password_chars
           /\ \A p, q \in 1..n : perm[p] = perm[q] => p = q
           /\ DrawsToPermsBijective

\* C9 witness: two pools, length four, and neither coverage character is
\* left in the first two positions.
UnbiasedShuffleWitness ==
  /\ pc = "returned"
  /\ Len(parts) = 2
  /\ length = 4
  /\ perm[1] > 2
  /\ perm[2] > 2
  /\ result[1] = working[perm[1]]

\* C10 (no pool of the code's alphabets is emptied): once build_charset has
\* returned there are as many pools as true flags, each of them non-empty,
\* and no call ever fails with the emptied-pools error.
NoPoolEmptied ==
  /\ raised # MsgEmptied
  /\ (pc \notin { "call", "build", "raised" }) =>
       /\ Len(parts) = Cardinality(SelectedAlphabets)
       /\ \A k \in 1..Len(parts) : parts[k] # << >>

\* C10 witness: the four categories with exclusion give four pools, the
\* digits' pool shortened to "23456789".
NoPoolEmptiedWitness ==
  /\ pc = "returned"
  /\ exclude_ambiguous
  /\ Len(parts) = 4
  /\ Len(parts[3]) = 8

====
